---- MODULE Spec2Model ----
(***************************************************************************)
(* imgmc: request dispatch, progress indicator and response               *)
(* materialization (src/src/main.rs, src/src/spinner.rs).                  *)
(*                                                                         *)
(* Two threads: the main thread (main, from the start of the indicator at  *)
(* main.rs:144 to the end of the process) and the indicator thread spawned *)
(* by Spinner::start.  Every action is one step of one of the two.         *)
(***************************************************************************)
EXTENDS Integers, Sequences, FiniteSets, TLC

VARIABLES
    cli,          \* Cli: prompt, quality, resolution, count, reference
    fs0,          \* the working directory when the run starts
    fs,           \* the working directory: file name -> bytes
    pc,           \* position of the main thread
    err,          \* error value being propagated by `?`, or "none"
    panicking,    \* the main thread is unwinding from a panic
    exit_code,    \* process exit status, -1 while the process runs
    stop,         \* Spinner.stop, the shared AtomicBool
    handle,       \* Spinner.handle is Some(join handle)
    sp_pc,        \* position of the indicator thread
    sp_i,         \* the indicator thread's frame index i
    stderr,       \* what has been written to the error stream, in order
    stdout,       \* the file names announced on standard output, in order
    requests,     \* the HTTP requests sent, in order
    body,         \* the response body waiting to be parsed
    gen_resp,     \* GenerationResponse.data
    i,            \* enumerate() index of the materialization loop (0-based)
    bytes,        \* decoded bytes of the current payload
    counter,      \* counter of the current file name search
    filename,     \* the file name chosen by the search
    counters      \* the counters chosen so far, in response order

vars == <<cli, fs0, fs, pc, err, panicking, exit_code, stop, handle, sp_pc, sp_i,
          stderr, stdout, requests, body, gen_resp, i, bytes, counter, filename,
          counters>>

mainVars == <<pc, err, panicking, exit_code>>
spinnerVars == <<stop, handle, sp_pc, sp_i>>
loopVars == <<i, bytes, counter, filename, counters>>

(***************************************************************************)
(* Bounds of the model.                                                    *)
(***************************************************************************)
\* Largest number of payloads in a response.
MaxPayloads == 2
\* Stand-in for usize::MAX, the largest value of the counter.
CounterMax == 3
\* Largest number of animation frames the indicator writes in one run.
MaxFrames == 1
\* Length of the long prompt.
LongLen == 52

(***************************************************************************)
(* Command line and configuration.                                         *)
(***************************************************************************)
Qualities == {"High", "Medium", "Low"}
Resolutions == {"R1024x1024", "R1024x1536", "R1536x1024"}
Counts == {1, 255}

\* The command lines of the model: every quality and every resolution occurs;
\* the two are passed through to the request independently of each other, so
\* they are varied together rather than as a product.
Settings ==
    {<<"High", "R1024x1024">>, <<"Medium", "R1024x1536">>, <<"Low", "R1536x1024">>}

LongPrompt == [j \in 1..LongLen |-> IF j % 5 = 0 THEN " " ELSE "x"]
Prompts == {<<"A", " ", "f", "o", "x", "!">>, LongPrompt}

\* impl Display for ImageQuality
QualityString(q) ==
    CASE q = "High" -> "high"
      [] q = "Medium" -> "medium"
      [] q = "Low" -> "low"

\* impl Display for ImageResolution: the #[value(name = ...)] of the variant
ResolutionString(r) ==
    CASE r = "R1024x1024" -> "1024x1024"
      [] r = "R1024x1536" -> "1024x1536"
      [] r = "R1536x1024" -> "1536x1024"

api_base == "https://example.openai.azure.com"
deployment == "dep"
api_key == "secret"
api_version == "2025-04-01-preview"

gen_url ==
    api_base \o "/openai/deployments/" \o deployment
             \o "/images/generations?api-version=" \o api_version

edits_url ==
    api_base \o "/openai/deployments/" \o deployment
             \o "/images/edits?api-version=" \o api_version

\* Bytes of the reference image and bytes of the files already in the directory.
RefBytes == <<7, 7>>
OldBytes == <<9>>

(***************************************************************************)
(* Pure functions.                                                         *)
(***************************************************************************)
Lower(c) ==
    CASE c = "A" -> "a"
      [] c = "F" -> "f"
      [] OTHER -> c

IsLowerOrDigit(c) == c \in {"a", "f", "o", "x", "1", "2"}
IsUpper(c) == c \in {"A", "F"}

\* slugify: letters and digits are kept in lower case, every run of other
\* characters becomes one "-", there is no leading "-" and a trailing one is
\* popped.
RECURSIVE SlugPush(_, _, _)
SlugPush(s, prev_is_dash, acc) ==
    IF s = <<>> THEN acc
    ELSE IF IsLowerOrDigit(Head(s)) \/ IsUpper(Head(s))
         THEN SlugPush(Tail(s), FALSE, Append(acc, Lower(Head(s))))
         ELSE IF prev_is_dash
              THEN SlugPush(Tail(s), TRUE, acc)
              ELSE SlugPush(Tail(s), TRUE, Append(acc, "-"))

slugify(s) ==
    LET pushed == SlugPush(s, TRUE, <<>>)
    IN  IF pushed # <<>> /\ pushed[Len(pushed)] = "-"
        THEN SubSeq(pushed, 1, Len(pushed) - 1)
        ELSE pushed

\* slug.len() > 50
SlugMax == 50

\* Faulty variant of trimmed_slug: the cut is one character short.
trimmed_slug_OffByOne(prompt) ==
    LET slug == slugify(prompt)
    IN  IF Len(slug) > SlugMax THEN SubSeq(slug, 1, SlugMax - 1) ELSE slug

trimmed_slug(prompt) ==
    LET slug == slugify(prompt)
    IN  IF Len(slug) > SlugMax THEN SubSeq(slug, 1, SlugMax) ELSE slug

\* the characters of a String, as one string
RECURSIVE Str(_)
Str(s) == IF s = <<>> THEN "" ELSE Head(s) \o Str(Tail(s))

\* format!("{trimmed_slug}_{counter}.png")
candidate(slug, c) == Str(slug) \o "_" \o ToString(c) \o ".png"

\* Faulty variant of exists: the check never finds the file.
exists_Never(dir, name) == FALSE

\* Path::new(&candidate).exists()
exists(dir, name) == name \in DOMAIN dir

\* BASE64_STD.decode on the payloads the model's server can send: two well
\* formed strings and one that is not base64.
Payloads == {"QQ==", "QkM=", "Q!=="}

B64Decode(b64) ==
    CASE b64 = "QQ==" -> [ok |-> TRUE, bytes |-> <<65>>]
      [] b64 = "QkM=" -> [ok |-> TRUE, bytes |-> <<66, 67>>]
      [] OTHER -> [ok |-> FALSE, bytes |-> <<>>]

\* Sequences over S of length at most n.
SeqUpTo(S, n) == UNION {[1..m -> S] : m \in 0..n}

\* File::create: the file exists afterwards and is empty (an existing file is
\* truncated).
FileCreate(dir, name) ==
    [n \in DOMAIN dir \cup {name} |-> IF n = name THEN <<>> ELSE dir[n]]

\* write_all: the file holds the bytes.
FileWrite(dir, name, bs) == [dir EXCEPT ![name] = bs]

(***************************************************************************)
(* Initial state: the process has parsed its command line and read its     *)
(* configuration (main.rs:103-142); the working directory holds any set of *)
(* files named like this prompt's outputs, and an unrelated file.          *)
(***************************************************************************)
InitDir(prompt, S) ==
    [n \in {candidate(trimmed_slug(prompt), c) : c \in S} \cup {"notes.txt"}
        |-> OldBytes]

Init ==
    /\ cli \in {c \in [prompt : Prompts, quality : Qualities,
                        resolution : Resolutions, count : Counts,
                        reference : BOOLEAN] :
                    <<c.quality, c.resolution>> \in Settings}
    /\ \E S \in SUBSET (1..CounterMax) : fs0 = InitDir(cli.prompt, S)
    /\ fs = fs0
    /\ pc = "start"
    /\ err = "none"
    /\ panicking = FALSE
    /\ exit_code = -1
    /\ stop = FALSE
    /\ handle = FALSE
    /\ sp_pc = "unborn"
    /\ sp_i = 0
    /\ stderr = <<>>
    /\ stdout = <<>>
    /\ requests = <<>>
    /\ body = [ok |-> FALSE, data |-> <<>>]
    /\ gen_resp = <<>>
    /\ i = 0
    /\ bytes = <<>>
    /\ counter = 0
    /\ filename = ""
    /\ counters = <<>>

(***************************************************************************)
(* The indicator thread (spinner.rs:21-34).                                *)
(***************************************************************************)
frames == <<"-", "\\", "|", "/">>
msg == "Calling API..."

FrameCount == Cardinality({j \in DOMAIN stderr : stderr[j].ev = "frame"})

\* Faulty variant of SpinnerStart: the thread renders a frame before its first
\* look at the flag (a do-while loop).
SpinnerStart_RenderFirst ==
    /\ pc = "start"
    /\ stop' = FALSE
    /\ handle' = TRUE
    /\ sp_pc' = "write"
    /\ sp_i' = 0
    /\ pc' = "dispatch"
    /\ UNCHANGED <<cli, fs0, fs, err, panicking, exit_code, stderr,
                   stdout, requests, body, gen_resp, loopVars>>

\* Spinner::start (spinner.rs:17-39), called at main.rs:144
SpinnerStart ==
    /\ pc = "start"
    /\ stop' = FALSE
    /\ handle' = TRUE
    /\ sp_pc' = "check"
    /\ sp_i' = 0
    /\ pc' = "dispatch"
    /\ UNCHANGED <<cli, fs0, fs, err, panicking, exit_code, stderr,
                   stdout, requests, body, gen_resp, loopVars>>

\* Faulty variant of SpinnerCheck: the loop does not look at the flag.
SpinnerCheck_IgnoresStop ==
    /\ sp_pc = "check"
    /\ exit_code = -1
    /\ FrameCount < MaxFrames
    /\ sp_pc' = "write"
    /\ UNCHANGED <<cli, fs0, fs, mainVars, stop, handle, sp_i, stderr,
                   stdout, requests, body, gen_resp, loopVars>>

\* while !stop2.load(Ordering::Relaxed).  A run writes at most MaxFrames
\* frames: with that many written, the thread stays asleep until the flag is
\* set.
SpinnerCheck ==
    /\ sp_pc = "check"
    /\ exit_code = -1
    /\ IF stop
       THEN sp_pc' = "clear"
       ELSE /\ FrameCount < MaxFrames
            /\ sp_pc' = "write"
    /\ UNCHANGED <<cli, fs0, fs, mainVars, stop, handle, sp_i, stderr,
                   stdout, requests, body, gen_resp, loopVars>>

\* write!(out, "\r{} {}", frames[i % frames.len()], msg); flush; i = (i + 1) % 4
SpinnerWrite ==
    /\ sp_pc = "write"
    /\ exit_code = -1
    /\ stderr' = Append(stderr, [ev |-> "frame",
                                 text |-> frames[(sp_i % Len(frames)) + 1] \o " " \o msg])
    /\ sp_i' = (sp_i + 1) % Len(frames)
    /\ sp_pc' = "sleep"
    /\ UNCHANGED <<cli, fs0, fs, mainVars, stop, handle, stdout,
                   requests, body, gen_resp, loopVars>>

\* thread::sleep(Duration::from_millis(80))
SpinnerSleep ==
    /\ sp_pc = "sleep"
    /\ exit_code = -1
    /\ sp_pc' = "check"
    /\ UNCHANGED <<cli, fs0, fs, mainVars, stop, handle, sp_i, stderr,
                   stdout, requests, body, gen_resp, loopVars>>

\* Faulty variant of SpinnerClear: after clearing the line the thread goes
\* back to its loop instead of ending.
SpinnerClear_Repeats ==
    /\ sp_pc = "clear"
    /\ exit_code = -1
    /\ stderr' = Append(stderr, [ev |-> "clear", text |-> "\\r\\x1b[2K"])
    /\ sp_pc' = "check"
    /\ UNCHANGED <<cli, fs0, fs, mainVars, stop, handle, sp_i, stdout,
                   requests, body, gen_resp, loopVars>>

\* write!(out, "\r\x1b[2K"); flush; the thread ends
SpinnerClear ==
    /\ sp_pc = "clear"
    /\ exit_code = -1
    /\ stderr' = Append(stderr, [ev |-> "clear", text |-> "\\r\\x1b[2K"])
    /\ sp_pc' = "exited"
    /\ UNCHANGED <<cli, fs0, fs, mainVars, stop, handle, sp_i, stdout,
                   requests, body, gen_resp, loopVars>>

(***************************************************************************)
(* Drop for Spinner (spinner.rs:42-49).  It runs at drop(sp) (main.rs:182),*)
(* when `?` returns from main while sp is alive, and when a panic unwinds  *)
(* main.                                                                   *)
(***************************************************************************)
\* self.stop.store(true, Ordering::Relaxed)
DropStore ==
    /\ pc = "drop_store"
    /\ stop' = TRUE
    /\ pc' = "drop_join"
    /\ UNCHANGED <<cli, fs0, fs, err, panicking, exit_code, handle,
                   sp_pc, sp_i, stderr, stdout, requests, body, gen_resp, loopVars>>

\* Faulty variant of DropJoin: the handle is taken but the thread is not waited for.
DropJoin_NoWait ==
    /\ pc = "drop_join"
    /\ handle
    /\ handle' = FALSE
    /\ IF panicking
       THEN /\ pc' = "exited"
            /\ exit_code' = 101
       ELSE /\ pc' = IF err = "none" THEN "loop" ELSE "report"
            /\ UNCHANGED exit_code
    /\ UNCHANGED <<cli, fs0, fs, err, panicking, stop, sp_pc, sp_i, stderr, stdout,
                   requests, body, gen_resp, loopVars>>

\* if let Some(h) = self.handle.take() { let _ = h.join(); }
DropJoin ==
    /\ pc = "drop_join"
    /\ handle
    /\ sp_pc = "exited"
    /\ handle' = FALSE
    /\ IF panicking
       THEN /\ pc' = "exited"
            /\ exit_code' = 101
       ELSE /\ pc' = IF err = "none" THEN "loop" ELSE "report"
            /\ UNCHANGED exit_code
    /\ UNCHANGED <<cli, fs0, fs, err, panicking, stop, sp_pc, sp_i,
                   stderr, stdout, requests, body, gen_resp, loopVars>>

(***************************************************************************)
(* The request phase (main.rs:146-180).                                    *)
(***************************************************************************)
\* Form::new().text("prompt", ..) ... .file("image", ref_path)
EditForm(c) ==
    [prompt |-> c.prompt,
     n |-> ToString(c.count),
     size |-> ResolutionString(c.resolution),
     quality |-> QualityString(c.quality),
     output_format |-> "png",
     image |-> RefBytes]

\* serde_json::json!({ "prompt": .., "n": n, .. })
JsonBody(c) ==
    [prompt |-> c.prompt,
     n |-> c.count,
     size |-> ResolutionString(c.resolution),
     quality |-> QualityString(c.quality),
     output_format |-> "png"]

\* ureq::post(&edits_url).header("api-key", &api_key).send(form)
EditRequest(c) ==
    [url |-> edits_url, headers |-> {<<"api-key", api_key>>},
     kind |-> "multipart", form |-> EditForm(c)]

\* ureq::post(&gen_url).header(..).header("api-key", &api_key).send_json(body)
GenRequest(c) ==
    [url |-> gen_url,
     headers |-> {<<"Content-Type", "application/json">>, <<"api-key", api_key>>},
     kind |-> "json", json |-> JsonBody(c)]

\* What the server can answer: a body that is not a GenerationResponse, or one
\* with up to MaxPayloads payloads.
Bodies ==
    {[ok |-> FALSE, data |-> <<>>]}
        \cup {[ok |-> TRUE, data |-> d] : d \in SeqUpTo(Payloads, MaxPayloads)}

\* Faulty variant of Dispatch: the two branches are swapped.
Dispatch_Inverted ==
    /\ pc = "dispatch"
    /\ pc' = IF cli.reference THEN "gen_send" ELSE "edit_form"
    /\ UNCHANGED <<cli, fs0, fs, err, panicking, exit_code, spinnerVars, stderr,
                   stdout, requests, body, gen_resp, loopVars>>

\* if let Some(ref_path) = cli.reference.as_ref()
Dispatch ==
    /\ pc = "dispatch"
    /\ pc' = IF cli.reference THEN "edit_form" ELSE "gen_send"
    /\ UNCHANGED <<cli, fs0, fs, err, panicking, exit_code, spinnerVars,
                   stderr, stdout, requests, body, gen_resp, loopVars>>

\* Faulty variant of BuildForm: on an unreadable file the process exits at once.
BuildForm_ExitsDirectly ==
    /\ pc = "edit_form"
    /\ \E readable \in BOOLEAN :
          IF readable
          THEN pc' = "edit_send" /\ UNCHANGED <<err, exit_code>>
          ELSE pc' = "exited" /\ err' = "ReferenceFileError" /\ exit_code' = 1
    /\ UNCHANGED <<cli, fs0, fs, panicking, spinnerVars,
                   stderr, stdout, requests, body, gen_resp, loopVars>>

\* building the form; .file("image", ref_path)? fails when the file cannot be
\* opened
BuildForm ==
    /\ pc = "edit_form"
    /\ \E readable \in BOOLEAN :
          IF readable
          THEN pc' = "edit_send" /\ UNCHANGED err
          ELSE pc' = "drop_store" /\ err' = "ReferenceFileError"
    /\ UNCHANGED <<cli, fs0, fs, panicking, exit_code, spinnerVars,
                   stderr, stdout, requests, body, gen_resp, loopVars>>

\* .send(form)?
EditSend ==
    /\ pc = "edit_send"
    /\ requests' = Append(requests, EditRequest(cli))
    /\ \/ /\ pc' = "drop_store"
          /\ err' = "TransportError"
          /\ UNCHANGED body
       \/ /\ body' \in Bodies
          /\ pc' = "edit_parse"
          /\ UNCHANGED err
    /\ UNCHANGED <<cli, fs0, fs, panicking, exit_code, spinnerVars,
                   stderr, stdout, gen_resp, loopVars>>

\* .body_mut().read_json::<GenerationResponse>()?
EditParse ==
    /\ pc = "edit_parse"
    /\ IF body.ok
       THEN gen_resp' = body.data /\ UNCHANGED err
       ELSE err' = "DecodeError" /\ UNCHANGED gen_resp
    /\ pc' = "drop_store"
    /\ UNCHANGED <<cli, fs0, fs, panicking, exit_code, spinnerVars,
                   stderr, stdout, requests, body, loopVars>>

\* Faulty variant of GenSend: a failed attempt is sent again.
GenSend_Retry ==
    /\ pc = "gen_send"
    /\ requests' = Append(requests, GenRequest(cli))
    /\ \/ /\ pc' = "gen_send"
          /\ UNCHANGED <<err, body>>
       \/ /\ body' \in Bodies
          /\ pc' = "gen_parse"
          /\ UNCHANGED err
    /\ UNCHANGED <<cli, fs0, fs, panicking, exit_code, spinnerVars, stderr, stdout,
                   gen_resp, loopVars>>

\* .send_json(body)?
GenSend ==
    /\ pc = "gen_send"
    /\ requests' = Append(requests, GenRequest(cli))
    /\ \/ /\ pc' = "drop_store"
          /\ err' = "TransportError"
          /\ UNCHANGED body
       \/ /\ body' \in Bodies
          /\ pc' = "gen_parse"
          /\ UNCHANGED err
    /\ UNCHANGED <<cli, fs0, fs, panicking, exit_code, spinnerVars,
                   stderr, stdout, gen_resp, loopVars>>

\* .body_mut().read_json::<GenerationResponse>().unwrap(): on Err the panic
\* hook writes its message to the error stream; then the thread unwinds
\* (dropping sp) or, in a build whose profile sets panic = "abort", the
\* process aborts.
GenParse ==
    /\ pc = "gen_parse"
    /\ IF body.ok
       THEN /\ gen_resp' = body.data
            /\ pc' = "drop_store"
            /\ UNCHANGED <<panicking, stderr, exit_code>>
       ELSE /\ stderr' = Append(stderr, [ev |-> "diag", text |-> "panicked"])
            /\ panicking' = TRUE
            /\ \E abort \in BOOLEAN :
                  IF abort
                  THEN pc' = "exited" /\ exit_code' = 134
                  ELSE pc' = "drop_store" /\ UNCHANGED exit_code
            /\ UNCHANGED gen_resp
    /\ UNCHANGED <<cli, fs0, fs, err, spinnerVars, stdout, requests, body, loopVars>>

\* main returns Err(e): the runtime writes "Error: {e:?}" to the error stream
\* and the process exits with status 1.
Report ==
    /\ pc = "report"
    /\ stderr' = Append(stderr, [ev |-> "diag", text |-> err])
    /\ exit_code' = 1
    /\ pc' = "exited"
    /\ UNCHANGED <<cli, fs0, fs, err, panicking, spinnerVars, stdout,
                   requests, body, gen_resp, loopVars>>

(***************************************************************************)
(* Materialization (main.rs:185-213).                                      *)
(***************************************************************************)
\* Faulty variant of FirstCounter: the 0-based index is used as it is.
FirstCounter_ZeroBased(idx) == idx

\* let mut counter = i + 1
FirstCounter(idx) == idx + 1

\* Faulty variant of CheckedAdd: a wrapping addition (counter += 1 in a
\* build without overflow checks).
CheckedAdd_Wrapping(c) ==
    IF c >= CounterMax THEN [some |-> TRUE, val |-> 0]
    ELSE [some |-> TRUE, val |-> c + 1]

\* Faulty variant of CheckedAdd: the counter advances by two.
CheckedAdd_SkipsOne(c) ==
    IF c + 1 >= CounterMax THEN [some |-> FALSE, val |-> 0]
    ELSE [some |-> TRUE, val |-> c + 2]

\* counter.checked_add(1)
CheckedAdd(c) ==
    IF c >= CounterMax THEN [some |-> FALSE, val |-> 0]
    ELSE [some |-> TRUE, val |-> c + 1]

\* for (i, item) in gen_resp.data.iter().enumerate(); Ok(()) after the loop
LoopNext ==
    /\ pc = "loop"
    /\ IF i < Len(gen_resp)
       THEN pc' = "decode" /\ UNCHANGED exit_code
       ELSE pc' = "exited" /\ exit_code' = 0
    /\ UNCHANGED <<cli, fs0, fs, err, panicking, spinnerVars, stderr,
                   stdout, requests, body, gen_resp, loopVars>>

\* Faulty variant of Decode: a decode failure yields no bytes instead of an error.
Decode_IgnoresError ==
    /\ pc = "decode"
    /\ bytes' = B64Decode(gen_resp[i + 1]).bytes
    /\ counter' = FirstCounter(i)
    /\ pc' = "search"
    /\ UNCHANGED <<cli, fs0, fs, err, panicking, exit_code, spinnerVars, stderr,
                   stdout, requests, body, gen_resp, i, filename, counters>>

\* BASE64_STD.decode(&item.b64_json).map_err(..)?; the slug; counter = i + 1
Decode ==
    /\ pc = "decode"
    /\ LET d == B64Decode(gen_resp[i + 1])
       IN  IF d.ok
           THEN /\ bytes' = d.bytes
                /\ counter' = FirstCounter(i)
                /\ pc' = "search"
                /\ UNCHANGED err
           ELSE /\ err' = "Base64DecodeError"
                /\ pc' = "report"
                /\ UNCHANGED <<bytes, counter>>
    /\ UNCHANGED <<cli, fs0, fs, panicking, exit_code, spinnerVars,
                   stderr, stdout, requests, body, gen_resp, i, filename, counters>>

\* Faulty variant of Search: the test of the existence check is inverted.
Search_Inverted ==
    /\ pc = "search"
    /\ LET cand == candidate(trimmed_slug(cli.prompt), counter)
           next == CheckedAdd(counter)
       IN  IF exists(fs, cand)
           THEN /\ filename' = cand
                /\ counters' = Append(counters, counter)
                /\ pc' = "create"
                /\ UNCHANGED <<counter, err>>
           ELSE IF next.some
                THEN /\ counter' = next.val
                     /\ UNCHANGED <<pc, filename, counters, err>>
                ELSE /\ err' = "CounterOverflowError"
                     /\ pc' = "report"
                     /\ UNCHANGED <<counter, filename, counters>>
    /\ UNCHANGED <<cli, fs0, fs, panicking, exit_code, spinnerVars, stderr, stdout,
                   requests, body, gen_resp, i, bytes>>

\* one iteration of the `let filename = loop { .. }` search
Search ==
    /\ pc = "search"
    /\ LET cand == candidate(trimmed_slug(cli.prompt), counter)
           next == CheckedAdd(counter)
       IN  IF ~exists(fs, cand)
           THEN /\ filename' = cand
                /\ counters' = Append(counters, counter)
                /\ pc' = "create"
                /\ UNCHANGED <<counter, err>>
           ELSE IF next.some
                THEN /\ counter' = next.val
                     /\ UNCHANGED <<pc, filename, counters, err>>
                ELSE /\ err' = "CounterOverflowError"
                     /\ pc' = "report"
                     /\ UNCHANGED <<counter, filename, counters>>
    /\ UNCHANGED <<cli, fs0, fs, panicking, exit_code, spinnerVars,
                   stderr, stdout, requests, body, gen_resp, i, bytes>>

\* let mut file = File::create(&filename)?
Create ==
    /\ pc = "create"
    /\ \/ /\ fs' = FileCreate(fs, filename)
          /\ pc' = "write"
          /\ UNCHANGED err
       \/ /\ err' = "FileWriteError"
          /\ pc' = "report"
          /\ UNCHANGED fs
    /\ UNCHANGED <<cli, fs0, panicking, exit_code, spinnerVars, stderr,
                   stdout, requests, body, gen_resp, loopVars>>

\* Faulty variant of WriteAll: a failed write is noted and the loop goes on
\* with the next payload.
WriteAll_Continues ==
    /\ pc = "write"
    /\ \/ /\ fs' = FileWrite(fs, filename, bytes)
          /\ pc' = "print"
          /\ UNCHANGED <<err, i>>
       \/ /\ \E m \in 0..(Len(bytes) - 1) :
                fs' = FileWrite(fs, filename, SubSeq(bytes, 1, m))
          /\ err' = "FileWriteError"
          /\ i' = i + 1
          /\ pc' = "loop"
    /\ UNCHANGED <<cli, fs0, panicking, exit_code, spinnerVars, stderr,
                   stdout, requests, body, gen_resp, bytes, counter, filename,
                   counters>>

\* file.write_all(&bytes)?: on failure a prefix of the bytes has been written
WriteAll ==
    /\ pc = "write"
    /\ \/ /\ fs' = FileWrite(fs, filename, bytes)
          /\ pc' = "print"
          /\ UNCHANGED err
       \/ /\ \E m \in 0..(Len(bytes) - 1) :
                fs' = FileWrite(fs, filename, SubSeq(bytes, 1, m))
          /\ err' = "FileWriteError"
          /\ pc' = "report"
    /\ UNCHANGED <<cli, fs0, panicking, exit_code, spinnerVars, stderr,
                   stdout, requests, body, gen_resp, loopVars>>

\* println!("Image saved to: {filename}"); the next iteration
Println ==
    /\ pc = "print"
    /\ stdout' = Append(stdout, filename)
    /\ i' = i + 1
    /\ pc' = "loop"
    /\ UNCHANGED <<cli, fs0, fs, err, panicking, exit_code, spinnerVars,
                   stderr, requests, body, gen_resp, bytes, counter, filename,
                   counters>>

(***************************************************************************)
(* The specification.                                                      *)
(***************************************************************************)
Main ==
    \/ SpinnerStart
    \/ Dispatch
    \/ BuildForm
    \/ EditSend
    \/ EditParse
    \/ GenSend
    \/ GenParse
    \/ DropStore
    \/ DropJoin
    \/ Report
    \/ LoopNext
    \/ Decode
    \/ Search
    \/ Create
    \/ WriteAll
    \/ Println

SpinnerThread ==
    \/ SpinnerCheck
    \/ SpinnerWrite
    \/ SpinnerSleep
    \/ SpinnerClear

Next == Main \/ SpinnerThread

Spec == Init /\ [][Next]_vars

\* The scheduler runs the indicator thread (its sleep ends, its writes return),
\* and a join returns once the joined thread has ended.  Nothing is assumed
\* about the network call, which has no timeout.
FairSpec == Spec /\ WF_vars(SpinnerThread) /\ WF_vars(DropJoin)

(***************************************************************************)
(* The run next to another process that creates files in the same working  *)
(* directory: between Path::exists (main.rs:200) and File::create          *)
(* (main.rs:208) the directory is not locked, and File::create opens with  *)
(* create + truncate, not create_new.                                      *)
(***************************************************************************)
\* Bytes another process puts into the files it creates.
OtherBytes == <<8, 8>>

\* Another process creates a file of this slug that does not exist yet, as
\* one step (a second instance after its own existence check, or any writer).
\* Files it created before the loop starts are files of the initial directory.
OtherProcess ==
    /\ exit_code = -1
    /\ pc \in {"loop", "decode", "search", "create", "write", "print"}
    /\ \E c \in 1..CounterMax :
          LET name == candidate(trimmed_slug(cli.prompt), c)
          IN  /\ ~exists(fs, name)
              /\ fs' = FileWrite(FileCreate(fs, name), name, OtherBytes)
    /\ UNCHANGED <<cli, fs0, mainVars, spinnerVars, stderr, stdout, requests,
                   body, gen_resp, loopVars>>

NextRace == Next \/ OtherProcess

SpecRace == Init /\ [][NextRace]_vars

(***************************************************************************)
(* Vocabulary of the properties.                                           *)
(***************************************************************************)
Range(f) == {f[j] : j \in DOMAIN f}

\* The main thread is in the materialization loop.
Materializing == pc \in {"loop", "decode", "search", "create", "write", "print"}

\* The indicator has been stopped and its thread joined.
SpinnerJoined == stop /\ ~handle /\ sp_pc = "exited"

\* A failure of the request phase: an error value of that phase, or the panic.
RequestFailed ==
    \/ err \in {"ReferenceFileError", "TransportError", "DecodeError"}
    \/ panicking

DiagEmitted == \E j \in DOMAIN stderr : stderr[j].ev = "diag"
ClearWritten == \E j \in DOMAIN stderr : stderr[j].ev = "clear"

\* No frame and no clear-line write follows a diagnostic on the error stream.
NothingAfterDiag ==
    \A j, k \in DOMAIN stderr :
        (j < k /\ stderr[j].ev = "diag") => stderr[k].ev = "diag"

\* The files that exist now and did not exist when the run started.
NewFiles == DOMAIN fs \ DOMAIN fs0

\* The response body arrived, could not be parsed, and the parse step has run.
ParseFailed ==
    /\ Len(requests) = 1
    /\ err # "TransportError"
    /\ ~body.ok
    /\ pc \notin {"edit_send", "gen_send", "edit_parse", "gen_parse"}

\* The name {slug}_{c}.png of this run's prompt.
SlugFile(c) == Str(trimmed_slug(cli.prompt)) \o "_" \o ToString(c) \o ".png"

\* The texts the request is expected to carry for the command line's values.
SizeText ==
    CASE cli.resolution = "R1024x1024" -> "1024x1024"
      [] cli.resolution = "R1024x1536" -> "1024x1536"
      [] cli.resolution = "R1536x1024" -> "1536x1024"

QualityText ==
    CASE cli.quality = "High" -> "high"
      [] cli.quality = "Medium" -> "medium"
      [] cli.quality = "Low" -> "low"

CountText == IF cli.count = 1 THEN "1" ELSE "255"

\* The number of clear-line writes on the error stream.
ClearCount == Cardinality({j \in DOMAIN stderr : stderr[j].ev = "clear"})

\* The drop of the started indicator has returned.
Dropped == stop /\ ~handle

\* The first 50 characters of the prompt's slug, or all of it when shorter.
SlugPortion ==
    LET slug == slugify(cli.prompt)
        n == IF Len(slug) > 50 THEN 50 ELSE Len(slug)
    IN  [j \in 1..n |-> slug[j]]

\* The names the run has chosen: the announced ones and the current one.
ChosenNames ==
    Range(stdout) \cup (IF pc \in {"create", "write", "print"} THEN {filename} ELSE {})

(***************************************************************************)
(* C1: on every failure path of the request phase the indicator has been   *)
(* stopped and its thread joined before any diagnostic text of the failure *)
(* is written: once a diagnostic is on the error stream the indicator is   *)
(* joined, and no frame or clear-line write follows the diagnostic.        *)
(* The panic of the generate path's unwrap() writes its message while the  *)
(* indicator is running.                                                   *)
(***************************************************************************)
C1_StoppedBeforeDiagnostic ==
    (RequestFailed /\ DiagEmitted) => (SpinnerJoined /\ NothingAfterDiag)

(***************************************************************************)
(* C2: on the success path the indicator thread has terminated (stop flag  *)
(* set, clear-line written, thread joined) before the first file is        *)
(* created and the first line printed: whenever the main thread is in the  *)
(* materialization loop, or a file has been created or announced, the      *)
(* indicator thread has exited, so it cannot write.                        *)
(***************************************************************************)
C2_JoinedBeforeOutput ==
    (Materializing \/ stdout # <<>> \/ fs # fs0) =>
        /\ SpinnerJoined
        /\ ClearWritten
        /\ (Materializing => stderr[Len(stderr)].ev = "clear")

C2_Witness ==
    /\ pc = "print"
    /\ FrameCount >= 1
    /\ fs # fs0

(***************************************************************************)
(* C3: for a response with k payloads and a run without decode, overflow   *)
(* or write failure, exactly k new files are created and exactly k lines   *)
(* printed, one per payload in response order (the j-th announced file     *)
(* holds the bytes of the j-th payload), whatever the directory held.      *)
(***************************************************************************)
C3_ExactlyKFiles ==
    (pc = "exited" /\ exit_code = 0) =>
        /\ Cardinality(NewFiles) = Len(gen_resp)
        /\ Len(stdout) = Len(gen_resp)
        /\ Range(stdout) = NewFiles
        /\ \A j \in DOMAIN stdout : fs[stdout[j]] = B64Decode(gen_resp[j]).bytes

C3_Witness ==
    /\ pc = "exited"
    /\ exit_code = 0
    /\ Len(gen_resp) = MaxPayloads
    /\ Cardinality(DOMAIN fs0) >= 2

(***************************************************************************)
(* C4: materialization never overwrites a file that existed before the     *)
(* run: every file name present at the start is present with the same      *)
(* bytes in every reachable state.                                         *)
(***************************************************************************)
C4_NoOverwrite ==
    \A n \in DOMAIN fs0 : n \in DOMAIN fs /\ fs[n] = fs0[n]

C4_Witness ==
    /\ pc = "print"
    /\ candidate(trimmed_slug(cli.prompt), 1) \in DOMAIN fs0
    /\ Len(stdout) = 1
    /\ fs[filename] = bytes

(***************************************************************************)
(* C5: the counters of one batch are strictly increasing in response       *)
(* order, the counter of the i-th payload (1-based) is at least i, and the *)
(* file about to be created is none of the files of the earlier payloads.  *)
(***************************************************************************)
C5_CountersIncrease ==
    /\ \A a, b \in DOMAIN counters : a < b => counters[a] < counters[b]
    /\ \A a \in DOMAIN counters : counters[a] >= a
    /\ pc = "create" => filename \notin Range(stdout)

C5_Witness ==
    /\ Len(counters) = 2
    /\ counters[2] > counters[1] + 1
    /\ pc = "print"

(***************************************************************************)
(* C6: for the i-th payload (1-based) the chosen name is {slug}_{c}.png    *)
(* with c the smallest integer >= i such that no file of that name exists  *)
(* when the search runs; with no file of that form in the directory the    *)
(* names are {slug}_1.png .. {slug}_k.png.                                 *)
(***************************************************************************)
C6_SmallestFreeCounter ==
    /\ pc = "create" =>
          /\ filename = SlugFile(counter)
          /\ counter >= i + 1
          /\ filename \notin DOMAIN fs
          /\ \A c \in (i + 1)..(counter - 1) : SlugFile(c) \in DOMAIN fs
    /\ DOMAIN fs0 = {"notes.txt"} =>
          \A j \in DOMAIN stdout : stdout[j] = SlugFile(j)

C6_Witness ==
    /\ pc = "create"
    /\ i = 1
    /\ counter = CounterMax
    /\ SlugFile(1) \notin DOMAIN fs0

(***************************************************************************)
(* C7: if the base64 data of payload j does not decode, materialization    *)
(* aborts with an error and a non-zero exit status: nothing is searched,   *)
(* created, written or printed for payload j or a later one, and the files *)
(* written for payloads 1..j-1 stay on disk with their bytes.              *)
(***************************************************************************)
C7_DecodeFailureAborts ==
    \A j \in DOMAIN gen_resp :
        ~B64Decode(gen_resp[j]).ok =>
            /\ i < j
            /\ Len(stdout) < j
            /\ Cardinality(NewFiles) < j
            /\ (i = j - 1) => pc \notin {"search", "create", "write", "print"}
            /\ (i = j - 1 /\ pc \in {"report", "exited"}) =>
                  /\ err = "Base64DecodeError"
                  /\ pc = "exited" => exit_code = 1
                  /\ Len(stdout) = j - 1
                  /\ Range(stdout) = NewFiles
                  /\ \A m \in 1..(j - 1) :
                        fs[stdout[m]] = B64Decode(gen_resp[m]).bytes

C7_Witness ==
    /\ pc = "exited"
    /\ err = "Base64DecodeError"
    /\ i = 1
    /\ Len(stdout) = 1

(***************************************************************************)
(* C8: the request kind is decided only by the presence of the reference   *)
(* path: without one the single request goes to the generations endpoint   *)
(* with a JSON body, with one to the edits endpoint with a multipart body  *)
(* carrying the reference file; both carry the prompt, the count (as a     *)
(* number in JSON, in its decimal string form in the form), the size, the  *)
(* quality and output_format = "png" of the command line.                  *)
(***************************************************************************)
C8_KindByReference ==
    \A r \in Range(requests) :
        /\ <<"api-key", api_key>> \in r.headers
        /\ IF cli.reference
           THEN /\ r.url = api_base \o "/openai/deployments/" \o deployment
                              \o "/images/edits?api-version=2025-04-01-preview"
                /\ r.kind = "multipart"
                /\ r.form = [prompt |-> cli.prompt, n |-> CountText,
                             size |-> SizeText, quality |-> QualityText,
                             output_format |-> "png", image |-> RefBytes]
           ELSE /\ r.url = api_base \o "/openai/deployments/" \o deployment
                              \o "/images/generations?api-version=2025-04-01-preview"
                /\ r.kind = "json"
                /\ r.json = [prompt |-> cli.prompt, n |-> cli.count,
                             size |-> SizeText, quality |-> QualityText,
                             output_format |-> "png"]

C8_Witness ==
    /\ Len(requests) = 1
    /\ cli.reference
    /\ cli.count = 255
    /\ cli.quality = "Low"
    /\ cli.resolution = "R1536x1024"
    /\ pc = "edit_parse"

(***************************************************************************)
(* C9: an invocation sends at most one HTTP request; a failed transport    *)
(* attempt is not retried, it ends the invocation with an error outcome,   *)
(* and no file is created and no line printed after it.                    *)
(***************************************************************************)
C9_AtMostOneRequest ==
    /\ Len(requests) <= 1
    /\ err = "TransportError" =>
          /\ pc \in {"drop_store", "drop_join", "report", "exited"}
          /\ fs = fs0
          /\ stdout = <<>>
          /\ pc = "exited" => exit_code = 1

C9_Witness ==
    /\ err = "TransportError"
    /\ pc = "exited"
    /\ Len(requests) = 1
    /\ ~cli.reference

(***************************************************************************)
(* C10: when the transport succeeds but the body cannot be parsed, the     *)
(* outcome is a DecodeError propagated as an error value, on the generate  *)
(* path as on the edit path, not an abnormal abort.  The generate path     *)
(* unwraps the parse result and panics.                                    *)
(***************************************************************************)
C10_DecodeErrorOnBothPaths ==
    ParseFailed => (err = "DecodeError" /\ ~panicking)

(***************************************************************************)
(* C11: after stop is invoked (the stop flag is set) the indicator thread  *)
(* writes no further animation frame, and it writes the clear-line         *)
(* sequence exactly once per started indicator.                            *)
(* As stated (from the moment the flag is set) this fails: a thread that   *)
(* has passed its check of the flag still writes the frame of that         *)
(* iteration.  What holds: once the drop has returned (flag set and thread *)
(* joined) no frame and no clear-line is written any more; the clear-line  *)
(* is never written twice, and it has been written exactly once when the   *)
(* drop returns.                                                           *)
(***************************************************************************)
\* C11 as stated: no frame from the moment the flag is set.
C11_NoFrameOnceFlagSet ==
    [][/\ stop => FrameCount' = FrameCount
       /\ ClearCount' <= 1
       /\ Dropped' => ClearCount' = 1]_vars

\* C11 as it holds: no frame and no clear-line once the drop has returned; the
\* clear-line is written at most once, and exactly once by then.
C11_NoFrameOnceDropped ==
    [][/\ Dropped => (FrameCount' = FrameCount /\ ClearCount' = ClearCount)
       /\ ClearCount' <= 1
       /\ Dropped' => ClearCount' = 1]_vars

C11_Witness ==
    /\ Dropped
    /\ pc = "loop"
    /\ FrameCount = MaxFrames
    /\ ClearCount = 1

(***************************************************************************)
(* C12: stopping the indicator always completes: once the stop flag is     *)
(* set, under fair scheduling the indicator thread eventually leaves its   *)
(* loop, writes the clear-line sequence and terminates, and the stop       *)
(* operation (the drop) returns, and returns only after that: when it has  *)
(* returned the thread has ended and the line is cleared.                  *)
(***************************************************************************)
C12_StopCompletes ==
    /\ stop ~> (sp_pc = "exited" /\ ClearWritten)
    /\ stop ~> Dropped
    /\ [](Dropped => (sp_pc = "exited" /\ ClearWritten))

C12_Witness ==
    /\ Dropped
    /\ pc = "report"
    /\ sp_pc = "exited"
    /\ FrameCount >= 1

(***************************************************************************)
(* C13: for a prompt whose slug is longer than 50 characters the slug      *)
(* portion of every output file name is exactly the first 50 characters of *)
(* the slug; for a slug of at most 50 characters it is the whole slug; all *)
(* payloads of one batch use the same slug portion.                        *)
(***************************************************************************)
C13_SlugPortion ==
    LET names == ChosenNames \cup NewFiles
        portion == Str(SlugPortion)
    IN  names # {} =>
            \A name \in names :
                \E c \in 1..CounterMax :
                    name = portion \o "_" \o ToString(c) \o ".png"

C13_Witness ==
    /\ Len(slugify(cli.prompt)) > 50
    /\ Len(stdout) = 2
    /\ pc = "exited"

(***************************************************************************)
(* C14: in each iteration the indicator thread renders a frame, flushes,   *)
(* sleeps, and only then checks the stop flag: a frame is rendered before  *)
(* every check of the flag, including the first check after start.         *)
(* The loop is `while !stop { render; flush; sleep }`: the first check     *)
(* comes before any frame.  What holds: each iteration checks the flag     *)
(* first and renders, flushes and sleeps only when the flag was clear; the *)
(* first check follows the start with no frame written, every later check  *)
(* follows a frame and its sleep.                                          *)
(***************************************************************************)
\* C14 as stated: a check of the flag is made only after a frame was rendered.
C14_FrameBeforeEveryCheck ==
    [][(sp_pc = "check" /\ sp_pc' \in {"write", "clear"}) => FrameCount >= 1]_vars

\* C14 as it holds: check, then (flag clear) render, flush, sleep, check again;
\* the first check follows the start with no frame written.
C14_CheckThenRender ==
    [][/\ (sp_pc # "unborn" /\ sp_pc' # sp_pc) =>
             \/ sp_pc = "check" /\ ~stop /\ sp_pc' = "write"
             \/ sp_pc = "check" /\ stop /\ sp_pc' = "clear"
             \/ sp_pc = "write" /\ sp_pc' = "sleep" /\ FrameCount' = FrameCount + 1
             \/ sp_pc = "sleep" /\ sp_pc' = "check" /\ FrameCount >= 1
             \/ sp_pc = "clear" /\ sp_pc' = "exited"
       /\ (sp_pc = "unborn" /\ sp_pc' # sp_pc) => (sp_pc' = "check" /\ FrameCount = 0)
       /\ FrameCount' # FrameCount => sp_pc = "write"]_vars

C14_Witness ==
    /\ sp_pc = "exited"
    /\ FrameCount = 0
    /\ Dropped

(***************************************************************************)
(* C15: when a reference path is given and the file cannot be opened or    *)
(* read, the run fails with ReferenceFileError: no HTTP request is sent,   *)
(* no output file is created, nothing is printed on standard output, and   *)
(* the indicator started before is stopped and joined before the error is  *)
(* reported and the process ends with a failure status.                    *)
(***************************************************************************)
C15_ReferenceFailure ==
    err = "ReferenceFileError" =>
        /\ cli.reference
        /\ requests = <<>>
        /\ fs = fs0
        /\ stdout = <<>>
        /\ ~panicking
        /\ pc \in {"drop_store", "drop_join", "report", "exited"}
        /\ pc \in {"report", "exited"} => SpinnerJoined
        /\ pc = "exited" => (exit_code = 1 /\ DiagEmitted /\ NothingAfterDiag)

C15_Witness ==
    /\ err = "ReferenceFileError"
    /\ pc = "exited"
    /\ FrameCount >= 1

(***************************************************************************)
(* C16: the counter of the name search only grows; when every candidate    *)
(* from the payload's first counter up to the largest value of the         *)
(* counter's type names an existing file, the search ends with             *)
(* CounterOverflowError as a returned error (no panic, failure status):    *)
(* the counter has not wrapped, no file has been created for that payload, *)
(* and no later payload is decoded, written or announced.  A name is       *)
(* chosen only when it was free.                                           *)
(***************************************************************************)
C16_CounterOverflow ==
    /\ pc = "search" =>
          /\ counter \in FirstCounter(i)..CounterMax
          /\ \A c \in FirstCounter(i)..(counter - 1) : exists(fs, SlugFile(c))
    /\ pc = "create" => ~exists(fs, filename)
    /\ err = "CounterOverflowError" =>
          /\ counter = CounterMax
          /\ \A c \in FirstCounter(i)..CounterMax : exists(fs, SlugFile(c))
          /\ pc \in {"report", "exited"}
          /\ ~panicking
          /\ i < Len(gen_resp)
          /\ Len(stdout) = i
          /\ Len(counters) = i
          /\ NewFiles = Range(stdout)
          /\ pc = "exited" => (exit_code = 1 /\ DiagEmitted)

C16_Witness ==
    /\ err = "CounterOverflowError"
    /\ pc = "exited"
    /\ Len(stdout) = 1
    /\ Len(gen_resp) = 2

(***************************************************************************)
(* C17: a failure to create or to write the file of a payload is fatal:    *)
(* the run goes straight to reporting the error and ends with a failure    *)
(* status, no line is printed for that payload, and no later payload is    *)
(* decoded, written or announced.                                          *)
(***************************************************************************)
C17_WriteFailureFatal ==
    err = "FileWriteError" =>
        /\ pc \in {"report", "exited"}
        /\ ~panicking
        /\ i < Len(gen_resp)
        /\ bytes = B64Decode(gen_resp[i + 1]).bytes
        /\ Len(counters) = i + 1
        /\ Len(stdout) = i
        /\ filename \notin Range(stdout)
        /\ NewFiles \subseteq Range(stdout) \cup {filename}
        /\ pc = "exited" => (exit_code = 1 /\ DiagEmitted)

C17_Witness ==
    /\ err = "FileWriteError"
    /\ pc = "exited"
    /\ filename \in DOMAIN fs
    /\ Len(stdout) = 1
    /\ Len(gen_resp) = 2

(***************************************************************************)
(* C18: with another process creating files in the working directory at    *)
(* the same time, the run never truncates or overwrites a file it did not  *)
(* create itself: File::create acts only on a name that does not exist at  *)
(* that moment, and the contents of an existing file change only by the    *)
(* run writing the file it has just created.                               *)
(***************************************************************************)
C18_NeverTruncatesForeignFile ==
    [][/\ (pc = "create" /\ pc' = "write") => ~exists(fs, filename)
       /\ \A name \in DOMAIN fs :
             fs'[name] # fs[name] => (pc = "write" /\ name = filename)]_vars

(***************************************************************************)
(* C19: in every state of the materialization loop and in every terminal   *)
(* state, also after a failure, the files the run has created are the      *)
(* paths it has announced on standard output, up to the one file that is   *)
(* being written; every announced file holds exactly the decoded bytes of  *)
(* its payload; in a terminal state no created file is left unannounced.   *)
(***************************************************************************)
C19_CreatedAreAnnounced ==
    LET current == IF pc \in {"write", "print"} THEN {filename} ELSE {}
    IN  /\ Range(stdout) \subseteq NewFiles
        /\ NewFiles \subseteq Range(stdout) \cup current
        /\ \A j \in DOMAIN stdout : fs[stdout[j]] = B64Decode(gen_resp[j]).bytes
        /\ pc \in {"report", "exited"} => NewFiles = Range(stdout)

====
